---------------------------- MODULE Spec2Model ----------------------------
(***************************************************************************)
(* Model of the AVR TWI (I2C) master driver of Sources/i2c.c.              *)
(*                                                                         *)
(* The driver is a single blocking thread of control.  Its position is pc  *)
(* (with retpc the return address of the primitive being executed); the    *)
(* peripheral consists of the registers TWCR, TWDR, TWSR, TWBR and of the  *)
(* hardware engine that completes a triggered bus phase.  The variables    *)
(* trace, bus, slaveSent and nackSeen are history variables: they record   *)
(* what the driver issued and what the slave answered, and are never read  *)
(* by the driver.                                                          *)
(***************************************************************************)
EXTENDS Integers, Sequences, FiniteSets, TLC

VARIABLES
    pc,         \* control position of the driver
    retpc,      \* where the running primitive returns to
    arg,        \* parameter of the running primitive (_Data or _ackNack)
    retval,     \* value returned by the last i2c_Read
    call,       \* the transaction call being served (its actual parameters)
    txIdx,      \* number of elements the tx pointer has advanced (_Data++ / _txData++)
    txLen,      \* the local _dataLength / _txDataLenght
    rxIdx,      \* number of elements the rx pointer has advanced (_Data++ / _rxData++)
    rxLen,      \* the local _dataLength / _rxDataLenght of the read loop
    rxBuf,      \* the caller's receive buffer
    TWCR,       \* TWI control register
    TWDR,       \* TWI data register
    TWSR,       \* TWI status register
    TWBR,       \* TWI bit rate register
    hwOp,       \* bus phase the hardware is carrying out ("none" when idle)
    hwMode,     \* hardware transfer mode: none, addr, MT, MR
    wedged,     \* the hardware has stopped answering for good
    trace,      \* history: primitive operations issued in the current call
    bus,        \* history: bus-level state Idle / AddressPhase / DataPhase
    slaveSent,  \* history: bytes the slave delivered in the current call
    nackSeen,   \* history: the slave has NACKed a byte of the current call
    twcrW,      \* history: the value the last primitive stored to TWCR
    isrSaved    \* context of the interrupted main code while a handler runs

vars == << pc, retpc, arg, retval, call, txIdx, txLen, rxIdx, rxLen, rxBuf,
           TWCR, TWDR, TWSR, TWBR, hwOp, hwMode, wedged,
           trace, bus, slaveSent, nackSeen, twcrW, isrSaved >>

(***************************************************************************)
(* Bounds of the model.                                                    *)
(***************************************************************************)
MaxLen == 2

(***************************************************************************)
(* Inputs.                                                                 *)
(***************************************************************************)
Addrs == {80, 127, 208}
TxBytes == {16, 170}
SlaveBytes == {170, 187}
BufLen == MaxLen + 1

RECURSIVE SeqsUpTo(_, _)
SeqsUpTo(S, n) ==
    IF n = 0 THEN { << >> }
    ELSE LET shorter == SeqsUpTo(S, n - 1)
         IN  shorter \cup { Append(s, x) : s \in { t \in shorter : Len(t) = n - 1 }, x \in S }

(***************************************************************************)
(* Register bits and 8-bit arithmetic.                                     *)
(***************************************************************************)
TWINT == 7
TWEA  == 6
TWSTA == 5
TWSTO == 4
TWEN  == 2
TWPS1 == 1
TWPS0 == 0

__i2c_WriteCmd == 0
__i2c_ReadCmd  == 1
__i2c_ackCmd   == 1
__i2c_nackCmd  == 0

Bit(v, n) == (v \div (2 ^ n)) % 2
bitSet(v, n) == IF Bit(v, n) = 1 THEN v ELSE v + 2 ^ n
bitClear(v, n) == IF Bit(v, n) = 1 THEN v - 2 ^ n ELSE v
ToU8(v) == v % 256

\* variant: the address is not shifted
AddrByte_NoShift(a, cmd) == ToU8(IF cmd = 1 THEN bitSet(a, 0) ELSE a)

\* (_address << 1) | cmd, converted to the uint8_t parameter of i2c_Write
AddrByte(a, cmd) == ToU8(IF cmd = 1 THEN bitSet(a * 2, 0) ELSE a * 2)

ToU16(v) == v % 65536

Op(o, v) == [op |-> o, val |-> v]

(***************************************************************************)
(* The peripheral.                                                         *)
(***************************************************************************)
TWS == [ START |-> 8, MT_SLA_ACK |-> 24, MT_SLA_NACK |-> 32,
         MT_DATA_ACK |-> 40, MT_DATA_NACK |-> 48,
         MR_SLA_ACK |-> 64, MR_SLA_NACK |-> 72,
         MR_DATA_ACK |-> 80, MR_DATA_NACK |-> 88, NO_INFO |-> 248 ]

\* status bits replaced, prescaler bits kept
WithStatus(sr, s) == s + (sr % 4)

\* The value the control register holds after the driver stores v: a one
\* written to TWINT clears the flag.
CtrlStore(v) == bitClear(v, TWINT)

\* The bus phase the hardware carries out after the driver stores v to the
\* control register while phase cur is pending: clearing TWINT with the
\* module enabled starts the phase the request bits and the transfer mode
\* select.
CtrlTrigger(v, mode, cur) ==
    IF Bit(v, TWINT) = 0 \/ Bit(v, TWEN) = 0 THEN cur
    ELSE IF Bit(v, TWSTA) = 1 THEN "start"
    ELSE IF Bit(v, TWSTO) = 1 THEN "stop"
    ELSE IF mode = "MR" THEN "rx"
    ELSE IF mode \in {"addr", "MT"} THEN "tx"
    ELSE "none"

\* Bus-level state machine of the protocol, driven by the operations issued.
BusNext(b, o) ==
    CASE o = "Start" -> "AddressPhase"
      [] o = "Stop" -> "Idle"
      [] o = "WriteByte" -> IF b = "AddressPhase" THEN "DataPhase" ELSE b
      [] OTHER -> b

TypeOK ==
    /\ TWCR \in 0..255
    /\ TWDR \in 0..255
    /\ TWSR \in 0..255
    /\ TWBR \in 0..255
    /\ hwOp \in {"none", "start", "stop", "tx", "rx"}
    /\ hwMode \in {"none", "addr", "MT", "MR"}
    /\ wedged \in BOOLEAN
    /\ bus \in {"Idle", "AddressPhase", "DataPhase"}

NoCall == [fn |-> "none", address |-> 0, Data |-> << >>, rxCount |-> 0]
EmptyBuf == [i \in 1..BufLen |-> 0]
\* no handler is running and none has run
NoIsr == [state |-> "none"]

Init ==
    /\ pc = "boot"
    /\ retpc = "none"
    /\ arg = 0
    /\ retval = 0
    /\ call = NoCall
    /\ txIdx = 0
    /\ txLen = 0
    /\ rxIdx = 0
    /\ rxLen = 0
    /\ rxBuf = EmptyBuf
    /\ TWCR = 0
    /\ TWDR = 255
    /\ TWSR = TWS.NO_INFO
    /\ TWBR = 0
    /\ hwOp = "none"
    /\ hwMode = "none"
    /\ wedged = FALSE
    /\ trace = << >>
    /\ bus = "Idle"
    /\ slaveSent = << >>
    /\ nackSeen = FALSE
    /\ twcrW = 0
    /\ isrSaved = NoIsr

(***************************************************************************)
(* i2c_Init                                                                *)
(***************************************************************************)
\* variant: the rate divisor is added to instead of being set
i2c_Init_Cumulative ==
    /\ pc \in {"boot", "idle"}
    /\ TWSR' = bitClear(bitClear(TWSR, TWPS0), TWPS1)
    /\ TWBR' = ToU8(TWBR + 72)
    /\ TWCR' = CtrlStore(bitSet(TWCR, TWEN))
    /\ hwOp' = CtrlTrigger(bitSet(TWCR, TWEN), hwMode, hwOp)
    /\ pc' = "idle"
    /\ UNCHANGED << retpc, arg, retval, call, txIdx, txLen, rxIdx, rxLen, rxBuf,
                    TWDR, hwMode, wedged, trace, bus, slaveSent, nackSeen >>
    /\ UNCHANGED << twcrW, isrSaved >>

i2c_Init ==
    /\ pc \in {"boot", "idle"}
    /\ TWSR' = bitClear(bitClear(TWSR, TWPS0), TWPS1)
    /\ TWBR' = 72
    /\ TWCR' = CtrlStore(bitSet(TWCR, TWEN))
    /\ hwOp' = CtrlTrigger(bitSet(TWCR, TWEN), hwMode, hwOp)
    /\ pc' = "idle"
    /\ UNCHANGED << retpc, arg, retval, call, txIdx, txLen, rxIdx, rxLen, rxBuf,
                    TWDR, hwMode, wedged, trace, bus, slaveSent, nackSeen >>
    /\ UNCHANGED << twcrW, isrSaved >>

(***************************************************************************)
(* Bus primitives.                                                         *)
(***************************************************************************)
drvLocals == << call, txIdx, txLen, rxIdx, rxLen, rxBuf >>
hwHist == << slaveSent, nackSeen >>

\* A store to TWCR by a primitive, logged as operation o.
Issue(v, o) ==
    /\ TWCR' = CtrlStore(v)
    /\ hwOp' = CtrlTrigger(v, hwMode, hwOp)
    /\ trace' = Append(trace, o)
    /\ bus' = BusNext(bus, o.op)
    /\ twcrW' = v

\* bitWaitHigh(TWCR, TWINT) has fallen through
WaitDone == Bit(TWCR, TWINT) = 1

\* variant: a reentrancy guard keeps a second caller out of an open frame
i2c_Start_39_Guarded ==
    /\ pc = "Start39"
    /\ isrSaved.state # "active"
    /\ Issue(2 ^ TWINT + 2 ^ TWEN + 2 ^ TWSTA, Op("Start", 0))
    /\ pc' = "Start40"
    /\ UNCHANGED << retpc, arg, retval, drvLocals, TWDR, TWSR, TWBR, hwMode, wedged, hwHist >>
    /\ UNCHANGED isrSaved

i2c_Start_39 ==
    /\ pc = "Start39"
    /\ Issue(2 ^ TWINT + 2 ^ TWEN + 2 ^ TWSTA, Op("Start", 0))
    /\ pc' = "Start40"
    /\ UNCHANGED << retpc, arg, retval, drvLocals, TWDR, TWSR, TWBR, hwMode, wedged, hwHist >>
    /\ UNCHANGED isrSaved

\* variant: the wait after the START trigger is left out
i2c_Start_40_NoWait ==
    /\ pc = "Start40"
    /\ pc' = retpc
    /\ retpc' = "none"
    /\ UNCHANGED << arg, retval, drvLocals, TWCR, TWDR, TWSR, TWBR, hwOp, hwMode, wedged,
                    trace, bus, hwHist >>
    /\ UNCHANGED << twcrW, isrSaved >>

i2c_Start_40 ==
    /\ pc = "Start40"
    /\ WaitDone
    /\ pc' = retpc
    /\ retpc' = "none"
    /\ UNCHANGED << arg, retval, drvLocals, TWCR, TWDR, TWSR, TWBR, hwOp, hwMode, wedged,
                    trace, bus, hwHist >>
    /\ UNCHANGED << twcrW, isrSaved >>

\* variant: Stop also polls TWINT before it returns
i2c_Stop_48_Waits ==
    \/ /\ pc = "Stop48"
       /\ Issue(2 ^ TWINT + 2 ^ TWEN + 2 ^ TWSTO, Op("Stop", 0))
       /\ pc' = "Stop49"
       /\ UNCHANGED << retpc, arg, retval, drvLocals, TWDR, TWSR, TWBR, hwMode, wedged, hwHist,
                       isrSaved >>
    \/ /\ pc = "Stop49"
       /\ WaitDone
       /\ pc' = retpc
       /\ retpc' = "none"
       /\ UNCHANGED << arg, retval, drvLocals, TWCR, TWDR, TWSR, TWBR, hwOp, hwMode, wedged,
                       trace, bus, hwHist, twcrW, isrSaved >>

\* variant: the stop request bit is left out of the stored value
i2c_Stop_48_NoStopBit ==
    /\ pc = "Stop48"
    /\ Issue(2 ^ TWINT + 2 ^ TWEN, Op("Stop", 0))
    /\ pc' = retpc
    /\ retpc' = "none"
    /\ UNCHANGED << arg, retval, drvLocals, TWDR, TWSR, TWBR, hwMode, wedged, hwHist >>
    /\ UNCHANGED isrSaved

i2c_Stop_48 ==
    /\ pc = "Stop48"
    /\ Issue(2 ^ TWINT + 2 ^ TWEN + 2 ^ TWSTO, Op("Stop", 0))
    /\ pc' = retpc
    /\ retpc' = "none"
    /\ UNCHANGED << arg, retval, drvLocals, TWDR, TWSR, TWBR, hwMode, wedged, hwHist >>
    /\ UNCHANGED isrSaved

\* variant: the control bits are or-ed into the register (TWCR |= ...)
i2c_Write_58_OrEquals ==
    /\ pc = "Write58"
    /\ TWDR' = arg
    /\ Issue(bitSet(bitSet(TWCR, TWINT), TWEN), Op("WriteByte", arg))
    /\ pc' = "Write60"
    /\ UNCHANGED << retpc, arg, retval, drvLocals, TWSR, TWBR, hwMode, wedged, hwHist >>
    /\ UNCHANGED isrSaved

i2c_Write_58 ==
    /\ pc = "Write58"
    /\ TWDR' = arg
    /\ Issue(2 ^ TWINT + 2 ^ TWEN, Op("WriteByte", arg))
    /\ pc' = "Write60"
    /\ UNCHANGED << retpc, arg, retval, drvLocals, TWSR, TWBR, hwMode, wedged, hwHist >>
    /\ UNCHANGED isrSaved

\* variant: the status register is inspected and a NACK aborts the call
i2c_Write_60_AbortOnNack ==
    /\ pc = "Write60"
    /\ WaitDone
    /\ pc' = IF TWSR - (TWSR % 4) \in {TWS.MT_SLA_NACK, TWS.MR_SLA_NACK, TWS.MT_DATA_NACK}
             THEN "ret" ELSE retpc
    /\ retpc' = "none"
    /\ UNCHANGED << arg, retval, drvLocals, TWCR, TWDR, TWSR, TWBR, hwOp, hwMode, wedged,
                    trace, bus, hwHist >>
    /\ UNCHANGED << twcrW, isrSaved >>

i2c_Write_60 ==
    /\ pc = "Write60"
    /\ WaitDone
    /\ pc' = retpc
    /\ retpc' = "none"
    /\ UNCHANGED << arg, retval, drvLocals, TWCR, TWDR, TWSR, TWBR, hwOp, hwMode, wedged,
                    trace, bus, hwHist >>
    /\ UNCHANGED << twcrW, isrSaved >>

i2c_Read_92 ==
    /\ pc = "Read92"
    /\ Issue(2 ^ TWINT + arg * 2 ^ TWEA + 2 ^ TWEN, Op("ReadByte", arg))
    /\ pc' = "Read93"
    /\ UNCHANGED << retpc, arg, retval, drvLocals, TWDR, TWSR, TWBR, hwMode, wedged, hwHist >>
    /\ UNCHANGED isrSaved

\* variant: TWDR is read without waiting for the reception to complete
i2c_Read_93_NoWait ==
    /\ pc = "Read93"
    /\ retval' = TWDR
    /\ pc' = retpc
    /\ retpc' = "none"
    /\ UNCHANGED << arg, drvLocals, TWCR, TWDR, TWSR, TWBR, hwOp, hwMode, wedged,
                    trace, bus, hwHist >>
    /\ UNCHANGED << twcrW, isrSaved >>

i2c_Read_93 ==
    /\ pc = "Read93"
    /\ WaitDone
    /\ retval' = TWDR
    /\ pc' = retpc
    /\ retpc' = "none"
    /\ UNCHANGED << arg, drvLocals, TWCR, TWDR, TWSR, TWBR, hwOp, hwMode, wedged,
                    trace, bus, hwHist >>
    /\ UNCHANGED << twcrW, isrSaved >>

\* jump to a primitive with parameter a, to come back at r
CallPrim(entry, a, r) ==
    /\ pc' = entry
    /\ arg' = a
    /\ retpc' = r

regs == << TWCR, TWDR, TWSR, TWBR, hwOp, hwMode, wedged >>
hist == << trace, bus, slaveSent, nackSeen >>

\* variant: the last byte is looked for after the count has run out
AckNack_AfterLast(len) == IF len = 0 THEN __i2c_nackCmd ELSE __i2c_ackCmd

\* (_dataLength == 1) ? __i2c_nackCmd : __i2c_ackCmd
AckNack(len) == IF len = 1 THEN __i2c_nackCmd ELSE __i2c_ackCmd

\* the caller enters a transaction function
Enter(fn, a, d, r, entry) ==
    /\ pc = "idle"
    /\ call' = [fn |-> fn, address |-> a, Data |-> d, rxCount |-> r]
    /\ txIdx' = 0
    /\ txLen' = Len(d)
    /\ rxIdx' = 0
    /\ rxLen' = r
    /\ rxBuf' = EmptyBuf
    /\ trace' = << >>
    /\ slaveSent' = << >>
    /\ nackSeen' = FALSE
    /\ pc' = entry
    /\ UNCHANGED << retpc, arg, retval, regs, bus >>
    /\ UNCHANGED << twcrW, isrSaved >>

(***************************************************************************)
(* i2c_writeAddress                                                        *)
(***************************************************************************)
i2c_writeAddress_call ==
    \E a \in Addrs, d \in SeqsUpTo(TxBytes, MaxLen) :
        Enter("writeAddress", a, d, 0, "wa72")

i2c_writeAddress_72 ==
    /\ pc = "wa72"
    /\ CallPrim("Start39", arg, "wa73")
    /\ UNCHANGED << retval, drvLocals, regs, hist >>
    /\ UNCHANGED << twcrW, isrSaved >>

i2c_writeAddress_73 ==
    /\ pc = "wa73"
    /\ CallPrim("Write58", AddrByte(call.address, __i2c_WriteCmd), "wa75")
    /\ UNCHANGED << retval, drvLocals, regs, hist >>
    /\ UNCHANGED << twcrW, isrSaved >>

\* variant: the buffer is indexed by the remaining length
i2c_writeAddress_75_FromEnd ==
    /\ pc = "wa75"
    /\ IF txLen # 0
       THEN /\ CallPrim("Write58", call.Data[txLen], "wa78")
            /\ txIdx' = txIdx + 1
       ELSE /\ pc' = "wa81"
            /\ UNCHANGED << retpc, arg, txIdx >>
    /\ UNCHANGED << retval, call, txLen, rxIdx, rxLen, rxBuf, regs, hist >>
    /\ UNCHANGED << twcrW, isrSaved >>

i2c_writeAddress_75 ==
    /\ pc = "wa75"
    /\ IF txLen # 0
       THEN /\ CallPrim("Write58", call.Data[txIdx + 1], "wa78")
            /\ txIdx' = txIdx + 1
       ELSE /\ pc' = "wa81"
            /\ UNCHANGED << retpc, arg, txIdx >>
    /\ UNCHANGED << retval, call, txLen, rxIdx, rxLen, rxBuf, regs, hist >>
    /\ UNCHANGED << twcrW, isrSaved >>

i2c_writeAddress_78 ==
    /\ pc = "wa78"
    /\ txLen' = ToU16(txLen - 1)
    /\ pc' = "wa75"
    /\ UNCHANGED << retpc, arg, retval, call, txIdx, rxIdx, rxLen, rxBuf, regs, hist >>
    /\ UNCHANGED << twcrW, isrSaved >>

\* variant: the function returns without the Stop
i2c_writeAddress_81_NoStop ==
    /\ pc = "wa81"
    /\ pc' = "ret"
    /\ UNCHANGED << retpc, arg, retval, drvLocals, regs, hist >>
    /\ UNCHANGED << twcrW, isrSaved >>

i2c_writeAddress_81 ==
    /\ pc = "wa81"
    /\ CallPrim("Stop48", arg, "ret")
    /\ UNCHANGED << retval, drvLocals, regs, hist >>
    /\ UNCHANGED << twcrW, isrSaved >>

(***************************************************************************)
(* i2c_readAdress                                                          *)
(***************************************************************************)
i2c_readAdress_call ==
    \E a \in Addrs, r \in 0..MaxLen :
        Enter("readAdress", a, << >>, r, "ra106")

i2c_readAdress_106 ==
    /\ pc = "ra106"
    /\ CallPrim("Start39", arg, "ra107")
    /\ UNCHANGED << retval, drvLocals, regs, hist >>
    /\ UNCHANGED << twcrW, isrSaved >>

\* variant: the address byte of the read carries the write bit
i2c_readAdress_107_WriteBit ==
    /\ pc = "ra107"
    /\ CallPrim("Write58", AddrByte(call.address, __i2c_WriteCmd), "ra109")
    /\ UNCHANGED << retval, drvLocals, regs, hist >>
    /\ UNCHANGED << twcrW, isrSaved >>

i2c_readAdress_107 ==
    /\ pc = "ra107"
    /\ CallPrim("Write58", AddrByte(call.address, __i2c_ReadCmd), "ra109")
    /\ UNCHANGED << retval, drvLocals, regs, hist >>
    /\ UNCHANGED << twcrW, isrSaved >>

\* variant: the loop body runs once before the length is tested
i2c_readAdress_109_DoWhile ==
    /\ pc = "ra109"
    /\ IF rxLen # 0 \/ rxIdx = 0
       THEN CallPrim("Read92", AckNack(rxLen), "ra111")
       ELSE pc' = "ra115" /\ UNCHANGED << retpc, arg >>
    /\ UNCHANGED << retval, drvLocals, regs, hist >>
    /\ UNCHANGED << twcrW, isrSaved >>

i2c_readAdress_109 ==
    /\ pc = "ra109"
    /\ IF rxLen # 0
       THEN CallPrim("Read92", AckNack(rxLen), "ra111")
       ELSE pc' = "ra115" /\ UNCHANGED << retpc, arg >>
    /\ UNCHANGED << retval, drvLocals, regs, hist >>
    /\ UNCHANGED << twcrW, isrSaved >>

\* variant: the pointer is advanced before the store
i2c_readAdress_111_PreIncrement ==
    /\ pc = "ra111"
    /\ rxBuf' = [rxBuf EXCEPT ![rxIdx + 2] = retval]
    /\ rxIdx' = rxIdx + 1
    /\ rxLen' = ToU16(rxLen - 1)
    /\ pc' = "ra109"
    /\ UNCHANGED << retpc, arg, retval, call, txIdx, txLen, regs, hist >>
    /\ UNCHANGED << twcrW, isrSaved >>

\* *_Data++ = <returned byte>; _dataLength--;
i2c_readAdress_111 ==
    /\ pc = "ra111"
    /\ rxBuf' = [rxBuf EXCEPT ![rxIdx + 1] = retval]
    /\ rxIdx' = rxIdx + 1
    /\ rxLen' = ToU16(rxLen - 1)
    /\ pc' = "ra109"
    /\ UNCHANGED << retpc, arg, retval, call, txIdx, txLen, regs, hist >>
    /\ UNCHANGED << twcrW, isrSaved >>

i2c_readAdress_115 ==
    /\ pc = "ra115"
    /\ CallPrim("Stop48", arg, "ret")
    /\ UNCHANGED << retval, drvLocals, regs, hist >>
    /\ UNCHANGED << twcrW, isrSaved >>

(***************************************************************************)
(* i2c_readSequential                                                      *)
(***************************************************************************)
i2c_readSequential_call ==
    \E a \in Addrs, d \in SeqsUpTo(TxBytes, MaxLen), r \in 0..MaxLen :
        Enter("readSequential", a, d, r, "rs129")

i2c_readSequential_129 ==
    /\ pc = "rs129"
    /\ CallPrim("Start39", arg, "rs130")
    /\ UNCHANGED << retval, drvLocals, regs, hist >>
    /\ UNCHANGED << twcrW, isrSaved >>

i2c_readSequential_130 ==
    /\ pc = "rs130"
    /\ CallPrim("Write58", AddrByte(call.address, __i2c_WriteCmd), "rs131")
    /\ UNCHANGED << retval, drvLocals, regs, hist >>
    /\ UNCHANGED << twcrW, isrSaved >>

\* variant: the write phase is closed by a Stop before the second Start
i2c_readSequential_131_StopBetween ==
    /\ pc = "rs131"
    /\ IF txLen # 0
       THEN /\ CallPrim("Write58", call.Data[txIdx + 1], "rs134")
            /\ txIdx' = txIdx + 1
       ELSE /\ CallPrim("Stop48", arg, "rs137")
            /\ UNCHANGED txIdx
    /\ UNCHANGED << retval, call, txLen, rxIdx, rxLen, rxBuf, regs, hist >>
    /\ UNCHANGED << twcrW, isrSaved >>

i2c_readSequential_131 ==
    /\ pc = "rs131"
    /\ IF txLen # 0
       THEN /\ CallPrim("Write58", call.Data[txIdx + 1], "rs134")
            /\ txIdx' = txIdx + 1
       ELSE /\ pc' = "rs137"
            /\ UNCHANGED << retpc, arg, txIdx >>
    /\ UNCHANGED << retval, call, txLen, rxIdx, rxLen, rxBuf, regs, hist >>
    /\ UNCHANGED << twcrW, isrSaved >>

i2c_readSequential_134 ==
    /\ pc = "rs134"
    /\ txLen' = ToU16(txLen - 1)
    /\ pc' = "rs131"
    /\ UNCHANGED << retpc, arg, retval, call, txIdx, rxIdx, rxLen, rxBuf, regs, hist >>
    /\ UNCHANGED << twcrW, isrSaved >>

\* i2c_Start();  (repeated start)
i2c_readSequential_137 ==
    /\ pc = "rs137"
    /\ CallPrim("Start39", arg, "rs138")
    /\ UNCHANGED << retval, drvLocals, regs, hist >>
    /\ UNCHANGED << twcrW, isrSaved >>

\* variant: the second address byte carries the write bit again
i2c_readSequential_138_WriteBit ==
    /\ pc = "rs138"
    /\ CallPrim("Write58", AddrByte(call.address, __i2c_WriteCmd), "rs139")
    /\ UNCHANGED << retval, drvLocals, regs, hist >>
    /\ UNCHANGED << twcrW, isrSaved >>

i2c_readSequential_138 ==
    /\ pc = "rs138"
    /\ CallPrim("Write58", AddrByte(call.address, __i2c_ReadCmd), "rs139")
    /\ UNCHANGED << retval, drvLocals, regs, hist >>
    /\ UNCHANGED << twcrW, isrSaved >>

i2c_readSequential_139 ==
    /\ pc = "rs139"
    /\ IF rxLen # 0
       THEN CallPrim("Read92", AckNack(rxLen), "rs141")
       ELSE pc' = "rs145" /\ UNCHANGED << retpc, arg >>
    /\ UNCHANGED << retval, drvLocals, regs, hist >>
    /\ UNCHANGED << twcrW, isrSaved >>

i2c_readSequential_141 ==
    /\ pc = "rs141"
    /\ rxBuf' = [rxBuf EXCEPT ![rxIdx + 1] = retval]
    /\ rxIdx' = rxIdx + 1
    /\ rxLen' = ToU16(rxLen - 1)
    /\ pc' = "rs139"
    /\ UNCHANGED << retpc, arg, retval, call, txIdx, txLen, regs, hist >>
    /\ UNCHANGED << twcrW, isrSaved >>

i2c_readSequential_145 ==
    /\ pc = "rs145"
    /\ CallPrim("Stop48", arg, "ret")
    /\ UNCHANGED << retval, drvLocals, regs, hist >>
    /\ UNCHANGED << twcrW, isrSaved >>

\* the transaction function has returned; the caller takes the result
Return ==
    /\ pc = "ret"
    /\ pc' = "idle"
    /\ call' = NoCall
    /\ txIdx' = 0
    /\ txLen' = 0
    /\ rxIdx' = 0
    /\ rxLen' = 0
    /\ rxBuf' = EmptyBuf
    /\ arg' = 0
    /\ retval' = 0
    /\ trace' = << >>
    /\ slaveSent' = << >>
    /\ nackSeen' = FALSE
    /\ UNCHANGED << retpc, regs, bus >>
    /\ UNCHANGED << twcrW, isrSaved >>

(***************************************************************************)
(* The hardware engine.                                                    *)
(***************************************************************************)
drv == << pc, retpc, arg, retval, call, txIdx, txLen, rxIdx, rxLen, rxBuf >>

\* START condition driven: the flag is raised, an address byte is expected
HwStartDone ==
    /\ ~wedged
    /\ hwOp = "start"
    /\ hwOp' = "none"
    /\ hwMode' = "addr"
    /\ TWCR' = bitSet(TWCR, TWINT)
    /\ TWSR' = WithStatus(TWSR, TWS.START)
    /\ UNCHANGED << drv, TWDR, TWBR, wedged, trace, bus, slaveSent, nackSeen >>
    /\ UNCHANGED << twcrW, isrSaved >>

\* TWDR shifted out; the slave answers ACK or NACK, which only TWSR shows
HwTxDone ==
    /\ ~wedged
    /\ hwOp = "tx"
    /\ \E ack \in BOOLEAN :
        /\ nackSeen' = (nackSeen \/ ~ack)
        /\ IF hwMode = "addr"
           THEN /\ hwMode' = IF Bit(TWDR, 0) = 1 THEN "MR" ELSE "MT"
                /\ TWSR' = WithStatus(TWSR,
                       IF Bit(TWDR, 0) = 1
                       THEN (IF ack THEN TWS.MR_SLA_ACK ELSE TWS.MR_SLA_NACK)
                       ELSE (IF ack THEN TWS.MT_SLA_ACK ELSE TWS.MT_SLA_NACK))
           ELSE /\ hwMode' = hwMode
                /\ TWSR' = WithStatus(TWSR,
                       IF ack THEN TWS.MT_DATA_ACK ELSE TWS.MT_DATA_NACK)
    /\ hwOp' = "none"
    /\ TWCR' = bitSet(TWCR, TWINT)
    /\ UNCHANGED << drv, TWDR, TWBR, wedged, trace, bus, slaveSent >>
    /\ UNCHANGED << twcrW, isrSaved >>

\* a byte shifted in from the slave; the master answers as TWEA says
HwRxDone ==
    /\ ~wedged
    /\ hwOp = "rx"
    /\ \E b \in SlaveBytes :
        /\ TWDR' = b
        /\ slaveSent' = Append(slaveSent, b)
    /\ TWSR' = WithStatus(TWSR,
           IF Bit(TWCR, TWEA) = 1 THEN TWS.MR_DATA_ACK ELSE TWS.MR_DATA_NACK)
    /\ hwOp' = "none"
    /\ TWCR' = bitSet(TWCR, TWINT)
    /\ UNCHANGED << drv, TWBR, hwMode, wedged, trace, bus, nackSeen >>
    /\ UNCHANGED << twcrW, isrSaved >>

\* STOP condition driven: TWSTO is cleared, the flag is NOT raised
HwStopDone ==
    /\ ~wedged
    /\ hwOp = "stop"
    /\ hwOp' = "none"
    /\ hwMode' = "none"
    /\ TWCR' = bitClear(TWCR, TWSTO)
    /\ TWSR' = WithStatus(TWSR, TWS.NO_INFO)
    /\ UNCHANGED << drv, TWDR, TWBR, wedged, trace, bus, slaveSent, nackSeen >>
    /\ UNCHANGED << twcrW, isrSaved >>

\* the hardware stops answering (stuck bus): the pending phase never completes
HwWedge ==
    /\ ~wedged
    /\ hwOp \in {"start", "tx", "rx"}
    /\ wedged' = TRUE
    /\ UNCHANGED << drv, TWCR, TWDR, TWSR, TWBR, hwOp, hwMode, trace, bus, slaveSent, nackSeen >>
    /\ UNCHANGED << twcrW, isrSaved >>

Primitive ==
    \/ i2c_Start_39 \/ i2c_Start_40 \/ i2c_Stop_48
    \/ i2c_Write_58 \/ i2c_Write_60 \/ i2c_Read_92 \/ i2c_Read_93

Transaction ==
    \/ i2c_writeAddress_72 \/ i2c_writeAddress_73 \/ i2c_writeAddress_75
    \/ i2c_writeAddress_78 \/ i2c_writeAddress_81
    \/ i2c_readAdress_106 \/ i2c_readAdress_107 \/ i2c_readAdress_109
    \/ i2c_readAdress_111 \/ i2c_readAdress_115
    \/ i2c_readSequential_129 \/ i2c_readSequential_130 \/ i2c_readSequential_131
    \/ i2c_readSequential_134 \/ i2c_readSequential_137 \/ i2c_readSequential_138
    \/ i2c_readSequential_139 \/ i2c_readSequential_141 \/ i2c_readSequential_145

Caller ==
    \/ i2c_Init
    \/ i2c_writeAddress_call \/ i2c_readAdress_call \/ i2c_readSequential_call
    \/ Return

Driver == Primitive \/ Transaction

Hardware == HwStartDone \/ HwTxDone \/ HwRxDone \/ HwStopDone

Next == Caller \/ Driver \/ Hardware \/ HwWedge

Spec == Init /\ [][Next]_vars

\* The hardware answers every trigger unless it is wedged, and the processor
\* keeps executing the driver.
FairSpec == Spec /\ WF_vars(Driver) /\ WF_vars(Hardware)

(***************************************************************************)
(* Vocabulary of the properties.                                           *)
(***************************************************************************)
IsPrefix(s, t) == Len(s) <= Len(t) /\ SubSeq(t, 1, Len(s)) = s
Count(s, o) == Cardinality({ i \in 1..Len(s) : s[i].op = o })
Returned(fn) == pc = "ret" /\ call.fn = fn
Running == call.fn # "none"

\* the address byte of the protocol: seven address bits, then the direction bit
WireAddress(a, dir) == (2 * a + dir) % 256
StartOp == Op("Start", 0)
StopOp == Op("Stop", 0)
WriteOps(d) == [i \in 1..Len(d) |-> Op("WriteByte", d[i])]
\* ACK (1) on all reads but the last, NACK (0) on the last
ReadOps(c) == [i \in 1..c |-> Op("ReadByte", IF i = c THEN 0 ELSE 1)]

WriteBurstOps(a, d) ==
    << StartOp, Op("WriteByte", WireAddress(a, 0)) >> \o WriteOps(d) \o << StopOp >>
ReadBurstOps(a, c) ==
    << StartOp, Op("WriteByte", WireAddress(a, 1)) >> \o ReadOps(c) \o << StopOp >>
WriteThenReadOps(a, d, c) ==
    << StartOp, Op("WriteByte", WireAddress(a, 0)) >> \o WriteOps(d)
       \o << StartOp, Op("WriteByte", WireAddress(a, 1)) >> \o ReadOps(c) \o << StopOp >>

\* C1: for an address in 0..127 and non-empty data, i2c_writeAddress issues
\* exactly Start, the address byte (a<<1)|0, the data bytes in their original
\* order, and one Stop: nothing else is ever issued on the way, and the whole
\* sequence has been issued when the call returns.
C1_WriteBurstSequence ==
    (call.fn = "writeAddress" /\ call.address \in 0..127 /\ Len(call.Data) >= 1)
        => LET want == << StartOp, Op("WriteByte", 2 * call.address) >>
                          \o WriteOps(call.Data) \o << StopOp >>
           IN  /\ IsPrefix(trace, want)
               /\ pc = "ret" => trace = want

C1_Witness ==
    /\ Returned("writeAddress")
    /\ call.address = 80
    /\ call.Data = << 16, 170 >>
    /\ trace = << StartOp, Op("WriteByte", 160), Op("WriteByte", 16),
                  Op("WriteByte", 170), StopOp >>

\* C2: for a count c >= 1, i2c_readAdress issues Start, the address byte
\* (a<<1)|1, c reads of which the first c-1 carry ACK and the last carries
\* NACK, then Stop; with c = 1 the only read carries NACK.
C2_ReadBurstSequence ==
    (call.fn = "readAdress" /\ call.rxCount >= 1)
        => /\ IsPrefix(trace, ReadBurstOps(call.address, call.rxCount))
           /\ pc = "ret" => trace = ReadBurstOps(call.address, call.rxCount)
           /\ \A i \in 1..Len(trace) :
                 trace[i].op = "ReadByte" =>
                     trace[i].val = (IF i - 2 = call.rxCount THEN 0 ELSE 1)

C2_Witness ==
    /\ Returned("readAdress")
    /\ call.rxCount = 1
    /\ trace = << StartOp, Op("WriteByte", WireAddress(call.address, 1)),
                  Op("ReadByte", 0), StopOp >>

\* C3: i2c_readSequential issues exactly two Starts and one Stop; the whole
\* write phase precedes the second Start, no Stop lies between the two
\* Starts, the Stop is the last operation, and the bus is never Idle from the
\* first Start to the Stop.
C3_RepeatedStart ==
    call.fn = "readSequential"
        => LET starts == { i \in 1..Len(trace) : trace[i].op = "Start" }
               stops  == { i \in 1..Len(trace) : trace[i].op = "Stop" }
               phase1 == << StartOp, Op("WriteByte", WireAddress(call.address, 0)) >>
                            \o WriteOps(call.Data)
           IN  /\ Cardinality(starts) <= 2
               /\ Cardinality(stops) <= 1
               /\ \A i \in stops : i = Len(trace) /\ Cardinality(starts) = 2
               /\ \A j \in starts : j = 1 \/ SubSeq(trace, 1, j - 1) = phase1
               /\ (trace # << >> /\ stops = {}) => bus # "Idle"
               /\ pc = "ret" => Cardinality(starts) = 2 /\ Cardinality(stops) = 1

C3_Witness ==
    /\ Returned("readSequential")
    /\ Len(call.Data) = 2
    /\ Count(trace, "Start") = 2
    /\ Count(trace, "Stop") = 1
    /\ trace[4 + 1] = StartOp

\* C4: for an address in 0..127, any tx of length m >= 0 and any rxCount
\* r >= 0, i2c_readSequential issues Start, (a<<1)|0, tx[0..m), Start,
\* (a<<1)|1, r reads (ACK on the first r-1, NACK on the last), Stop.
C4_WriteThenReadSequence ==
    (Returned("readSequential") /\ call.address \in 0..127)
        => trace = << StartOp, Op("WriteByte", 2 * call.address) >>
                      \o WriteOps(call.Data)
                      \o << StartOp, Op("WriteByte", 2 * call.address + 1) >>
                      \o ReadOps(call.rxCount) \o << StopOp >>

C4_Witness ==
    /\ Returned("readSequential")
    /\ call.address = 127
    /\ call.Data = << >>
    /\ call.rxCount = 0
    /\ trace = << StartOp, Op("WriteByte", 254), StartOp, Op("WriteByte", 255), StopOp >>

\* C5: with length zero, i2c_readAdress and i2c_writeAddress issue exactly
\* Start, the address byte with the read resp. write bit, and Stop: no data
\* byte is written or read, and the call returns.
C5_ZeroLength ==
    /\ (call.fn = "writeAddress" /\ call.Data = << >>)
          => /\ IsPrefix(trace, << StartOp, Op("WriteByte", WireAddress(call.address, 0)), StopOp >>)
             /\ pc = "ret" => Len(trace) = 3
    /\ (call.fn = "readAdress" /\ call.rxCount = 0)
          => /\ IsPrefix(trace, << StartOp, Op("WriteByte", WireAddress(call.address, 1)), StopOp >>)
             /\ pc = "ret" => Len(trace) = 3
             /\ slaveSent = << >>

C5_Witness ==
    /\ Returned("readAdress")
    /\ call.rxCount = 0
    /\ trace = << StartOp, Op("WriteByte", 161), StopOp >>

\* C6: when i2c_readAdress or i2c_readSequential returns, the first rxCount
\* elements of the buffer are the bytes the slave supplied, in arrival order.
C6_BufferIsSlaveData ==
    (pc = "ret" /\ call.fn \in {"readAdress", "readSequential"})
        => /\ Len(slaveSent) = call.rxCount
           /\ \A i \in 1..call.rxCount : rxBuf[i] = slaveSent[i]

C6_Witness ==
    /\ Returned("readSequential")
    /\ call.address = 80
    /\ call.Data = << 16 >>
    /\ call.rxCount = 2
    /\ slaveSent = << 170, 187 >>
    /\ rxBuf[1] = 170
    /\ rxBuf[2] = 187

\* C7: the bus is Idle whenever no transaction is in progress (before the
\* first Start of a call and after its return), and a transaction that has
\* returned has issued exactly one Stop, as its last operation.
C7_IdleBetweenTransactions ==
    /\ pc \in {"boot", "idle", "wa72", "ra106", "rs129", "ret"} => bus = "Idle"
    /\ pc = "ret" => /\ Count(trace, "Stop") = 1
                     /\ Len(trace) >= 1
                     /\ trace[Len(trace)] = StopOp
                     /\ trace[1] = StartOp

C7_Witness ==
    /\ Returned("readSequential")
    /\ bus = "Idle"
    /\ nackSeen
    /\ TWBR = 72

PrimitivePcs == {"Start39", "Start40", "Stop48", "Write58", "Write60", "Read92", "Read93"}
WaitPcs == {"Start40", "Write60", "Read93"}
PrimitiveReturns == pc \in PrimitivePcs /\ pc' \notin PrimitivePcs
\* the hardware has raised the completion flag and carries out no bus phase
PhaseFinished == Bit(TWCR, TWINT) = 1 /\ hwOp = "none"

\* C8 as stated: every primitive, Stop included, returns only once the
\* hardware has signalled that the phase it triggered is finished.
C8_EveryPrimitiveWaits ==
    [][PrimitiveReturns => PhaseFinished']_vars

\* C8 amended: Start, WriteByte and ReadByte return only after they have
\* triggered their phase and the hardware has signalled its completion.
C8_StartWriteReadWait ==
    [][(PrimitiveReturns /\ pc # "Stop48")
          => /\ pc \in WaitPcs
             /\ PhaseFinished'
             /\ trace' = trace
             /\ trace # << >>
             /\ trace[Len(trace)].op =
                    (CASE pc = "Start40" -> "Start"
                       [] pc = "Write60" -> "WriteByte"
                       [] OTHER -> "ReadByte")]_vars

C8_Witness ==
    /\ pc = "ra111"
    /\ PhaseFinished
    /\ trace[Len(trace)].op = "ReadByte"
    /\ retval = slaveSent[Len(slaveSent)]

\* the operations a call issues, as a function of its parameters alone
ExpectedOps(c) ==
    CASE c.fn = "writeAddress" -> WriteBurstOps(c.address, c.Data)
      [] c.fn = "readAdress" -> ReadBurstOps(c.address, c.rxCount)
      [] c.fn = "readSequential" -> WriteThenReadOps(c.address, c.Data, c.rxCount)
      [] OTHER -> << >>

\* C9: the operations a transaction issues are determined by the parameters
\* of the call alone: whatever the slave answered (ACK or NACK, shown only in
\* TWSR), the driver goes on with the same next operation and returns after
\* the same full sequence, never aborting and never retrying.
C9_SlaveResponseIgnored ==
    Running => /\ IsPrefix(trace, ExpectedOps(call))
               /\ pc = "ret" => trace = ExpectedOps(call)

C9_Witness ==
    /\ call.fn = "writeAddress"
    /\ Len(call.Data) = 2
    /\ pc = "Write60"
    /\ TWSR = TWS.MT_SLA_NACK
    /\ nackSeen
    /\ trace = << StartOp, Op("WriteByte", WireAddress(call.address, 0)),
                  Op("WriteByte", call.Data[1]) >>

\* C10: under the assumption that the hardware answers every trigger (it is
\* not wedged) a running transaction reaches its Stop and returns; while the
\* flag is not raised the call stays in the waiting primitive and issues
\* nothing, and once the hardware is wedged the call stays blocked there
\* forever without ever having issued its Stop.
C10_ReturnsIffFlagRaised ==
    /\ (Running /\ pc # "ret") ~> (pc = "ret" \/ wedged)
    /\ [](wedged => pc \in WaitPcs /\ Bit(TWCR, TWINT) = 0 /\ Count(trace, "Stop") = 0)
    /\ [][(wedged \/ (pc \in WaitPcs /\ Bit(TWCR, TWINT) = 0))
             => (pc' = pc /\ trace' = trace)]_vars

C10_Witness ==
    /\ wedged
    /\ call.fn = "readSequential"
    /\ pc = "Read93"
    /\ Len(call.Data) = 1
    /\ call.rxCount = 2
    /\ Len(slaveSent) = 1

(***************************************************************************)
(* i2c_Init from an arbitrary peripheral state.                            *)
(***************************************************************************)
\* control register contents: disabled, enabled, flag raised with and without
\* request bits, requests pending with the flag low, interrupt enable set
AnyTWCR == {0, 4, 5, 36, 20, 128, 132, 164, 148, 196, 255}
AnyTWSR == { s + p : s \in {TWS.START, TWS.MT_SLA_ACK, TWS.MR_DATA_NACK, TWS.NO_INFO},
                     p \in 0..3 }
AnyTWBR == {0, 12, 72, 184, 255}

InitAny ==
    /\ pc = "boot"
    /\ retpc = "none"
    /\ arg = 0
    /\ retval = 0
    /\ call = NoCall
    /\ txIdx = 0
    /\ txLen = 0
    /\ rxIdx = 0
    /\ rxLen = 0
    /\ rxBuf = EmptyBuf
    /\ TWCR \in AnyTWCR
    /\ TWDR \in {0, 255}
    /\ TWSR \in AnyTWSR
    /\ TWBR \in AnyTWBR
    /\ hwOp \in {"none", "start", "stop"}
    /\ hwMode \in {"none", "MT"}
    /\ wedged = FALSE
    /\ trace = << >>
    /\ bus = "Idle"
    /\ slaveSent = << >>
    /\ nackSeen = FALSE
    /\ twcrW = 0
    /\ isrSaved = NoIsr

\* i2c_Init called over and over, with no other activity in between
InitSpec == InitAny /\ [][i2c_Init]_vars

\* C11: i2c_Init is idempotent: once it has been called (pc = "idle"), a
\* further call changes no register of the peripheral and no pending bus
\* phase; the state it leaves has the prescaler bits cleared, the rate
\* divisor 72 and the module enabled, whatever the state it started from.
C11_InitIdempotent ==
    /\ [](pc = "idle" => /\ Bit(TWSR, TWPS0) = 0
                         /\ Bit(TWSR, TWPS1) = 0
                         /\ TWBR = 72
                         /\ Bit(TWCR, TWEN) = 1)
    /\ [][pc = "idle" => UNCHANGED << TWCR, TWDR, TWSR, TWBR, hwOp, hwMode >>]_vars

C11_Witness ==
    /\ pc = "idle"
    /\ TWSR = TWS.MT_SLA_ACK
    /\ TWBR = 72
    /\ TWCR = 36
    /\ hwOp = "start"

\* Only the processor is assumed to make progress: the hardware may never
\* complete a phase.
DriverFairSpec == Spec /\ WF_vars(Driver)

\* C12: i2c_Stop is one store to TWCR that requests the STOP condition (TWINT,
\* TWEN and TWSTO written as one) and returns in the same step, without
\* polling: it returns to its caller even if the hardware never raises the
\* flag, and the bus-level state after it is Idle.
C12_StopReturnsAtOnce ==
    /\ [][(pc = "Stop48" /\ pc' # pc)
            => /\ pc' = retpc
               /\ pc' \notin PrimitivePcs
               /\ twcrW' = 2 ^ TWINT + 2 ^ TWEN + 2 ^ TWSTO
               /\ TWCR' = 2 ^ TWEN + 2 ^ TWSTO
               /\ hwOp' = "stop"
               /\ trace' = Append(trace, StopOp)
               /\ bus' = "Idle"]_vars
    /\ (pc = "Stop48") ~> (pc \notin PrimitivePcs)

C12_Witness ==
    /\ pc = "ret"
    /\ hwOp = "stop"
    /\ Bit(TWCR, TWINT) = 0
    /\ Bit(TWCR, TWSTO) = 1
    /\ bus = "Idle"
    /\ trace[Len(trace)] = StopOp

\* position i of the trace holds an address byte: the byte after a Start
IsAddress(i) == i > 1 /\ trace[i].op = "WriteByte" /\ trace[i - 1].op = "Start"
\* direction bit of the address byte that governs position i (the last one
\* before i), -1 when there is none
Direction(i) ==
    LET before == { j \in 1..(i - 1) : IsAddress(j) }
    IN  IF before = {} THEN -1
        ELSE trace[CHOOSE j \in before : \A k \in before : k <= j].val % 2
\* the bus-level state the operations issued so far lead to
RECURSIVE BusAfter(_)
BusAfter(t) ==
    IF t = << >> THEN "Idle"
    ELSE BusNext(BusAfter(SubSeq(t, 1, Len(t) - 1)), t[Len(t)].op)

\* C13: the operations of a transaction follow the bus-level state machine:
\* the first operation is a Start (nothing is read or written while Idle),
\* every Start is directly followed by an address byte, after a write
\* address only WriteByte occurs up to the next Start or the Stop, after a
\* read address only ReadByte occurs up to the Stop, and nothing follows the
\* Stop.
C13_BusStateMachine ==
    Running =>
       /\ trace # << >> => trace[1].op = "Start"
       /\ bus = BusAfter(trace)
       /\ \A i \in 1..Len(trace) :
             /\ (trace[i].op = "Start" /\ i < Len(trace)) => trace[i + 1].op = "WriteByte"
             /\ (trace[i].op = "Stop") => i = Len(trace)
             /\ (trace[i].op = "WriteByte" /\ ~IsAddress(i)) => Direction(i) = 0
             /\ (trace[i].op = "ReadByte") => Direction(i) = 1
             /\ (trace[i].op = "Start" /\ i > 1) => Direction(i) = 0
             /\ (trace[i].op \in {"WriteByte", "ReadByte"})
                    => BusAfter(SubSeq(trace, 1, i - 1)) # "Idle"

C13_Witness ==
    /\ Returned("readSequential")
    /\ Len(call.Data) = 1
    /\ call.rxCount = 2
    /\ Len(trace) = 8
    /\ Direction(3) = 0
    /\ Direction(6) = 1
    /\ bus = "Idle"

(***************************************************************************)
(* Two logical callers: the main code and an interrupt handler.            *)
(*                                                                         *)
(* The handler preempts the main code between two of its steps, runs one   *)
(* i2c_writeAddress to completion on the same peripheral and returns to    *)
(* the interrupted code.  trace keeps recording what reaches the bus, for  *)
(* both callers.  One interrupt is taken per run.                          *)
(***************************************************************************)
IsrAddress == 127
IsrData == << 170 >>

Main_writeAddress_call == Enter("writeAddress", 80, << 16 >>, 0, "wa72")
Main_readAdress_call == Enter("readAdress", 80, << >>, 1, "ra106")
Main_readSequential_call == Enter("readSequential", 80, << 16 >>, 1, "rs129")

\* the main code takes the result of its own call
Main_Return ==
    /\ isrSaved.state # "active"
    /\ Return

\* the handler starts i2c_writeAddress while the main code is inside a call
IsrEnter ==
    /\ isrSaved.state = "none"
    /\ Running
    /\ pc # "ret"
    /\ isrSaved' = [state |-> "active", pc |-> pc, retpc |-> retpc, arg |-> arg,
                    retval |-> retval, call |-> call, txIdx |-> txIdx, txLen |-> txLen,
                    rxIdx |-> rxIdx, rxLen |-> rxLen, rxBuf |-> rxBuf,
                    mark |-> Len(trace)]
    /\ call' = [fn |-> "writeAddress", address |-> IsrAddress, Data |-> IsrData,
                rxCount |-> 0]
    /\ txIdx' = 0
    /\ txLen' = Len(IsrData)
    /\ rxIdx' = 0
    /\ rxLen' = 0
    /\ rxBuf' = EmptyBuf
    /\ retpc' = "none"
    /\ pc' = "wa72"
    /\ UNCHANGED << arg, retval, regs, hist, twcrW >>

\* the handler's call has returned: the interrupted code goes on
IsrReturn ==
    /\ isrSaved.state = "active"
    /\ pc = "ret"
    /\ pc' = isrSaved.pc
    /\ retpc' = isrSaved.retpc
    /\ arg' = isrSaved.arg
    /\ retval' = isrSaved.retval
    /\ call' = isrSaved.call
    /\ txIdx' = isrSaved.txIdx
    /\ txLen' = isrSaved.txLen
    /\ rxIdx' = isrSaved.rxIdx
    /\ rxLen' = isrSaved.rxLen
    /\ rxBuf' = isrSaved.rxBuf
    /\ isrSaved' = [state |-> "served"]
    /\ UNCHANGED << regs, hist, twcrW >>

IsrNext ==
    \/ i2c_Init
    \/ Main_writeAddress_call \/ Main_readAdress_call \/ Main_readSequential_call
    \/ Main_Return
    \/ Driver
    \/ Hardware
    \/ IsrEnter
    \/ IsrReturn

IsrSpec == Init /\ [][IsrNext]_vars

\* C14: the driver has no mutual exclusion.  While the handler runs inside
\* the open frame of the main code, no step of the driver is refused (only
\* the polling loops wait, for the hardware), and every operation of the
\* handler's call goes to the bus as in a call made alone, appended to the
\* operations of the frame the main code has left open.
C14_NoMutualExclusion ==
    isrSaved.state = "active" =>
        LET mine == SubSeq(trace, isrSaved.mark + 1, Len(trace))
            open == SubSeq(trace, 1, isrSaved.mark)
        IN  /\ (pc \notin WaitPcs /\ pc # "ret") => ENABLED Driver
            /\ IsPrefix(mine, ExpectedOps(call))
            /\ pc = "ret" => mine = ExpectedOps(call)
            /\ Count(open, "Stop") = 0
            /\ IsPrefix(open, ExpectedOps(isrSaved.call))

\* the main code's data byte reaches the bus after the handler's Stop, and
\* the handler's Start and address byte lie inside the main code's frame
C14_Witness ==
    /\ isrSaved.state = "served"
    /\ call.fn = "writeAddress"
    /\ call.address = 80
    /\ trace = << StartOp, Op("WriteByte", 160),
                  StartOp, Op("WriteByte", 254), Op("WriteByte", 170), StopOp,
                  Op("WriteByte", 16) >>
    /\ BusAfter(SubSeq(trace, 1, 6)) = "Idle"

\* C15: during a call the parameters and the tx buffer stay as passed; the tx
\* pointer advances one element at a time over elements 1..n, the element
\* read being the one handed to i2c_Write, and only in the writing functions;
\* an element of the rx buffer changes only when it is the next one, within
\* 1..count, it receives the byte just returned by i2c_Read, and only in the
\* reading functions; at return n elements have been read, count elements
\* written, and every rx element beyond count is as it was before the call.
C15_BufferFrame ==
    /\ [][(Running /\ pc # "ret")
            => /\ call' = call
               /\ txIdx' # txIdx
                     => /\ call.fn \in {"writeAddress", "readSequential"}
                        /\ txIdx' = txIdx + 1
                        /\ txIdx' <= Len(call.Data)
                        /\ arg' = call.Data[txIdx']
               /\ rxIdx' # rxIdx
                     => /\ call.fn \in {"readAdress", "readSequential"}
                        /\ rxIdx' = rxIdx + 1
                        /\ rxIdx' <= call.rxCount
                        /\ rxBuf'[rxIdx'] = retval
               /\ \A i \in 1..BufLen :
                     rxBuf'[i] # rxBuf[i] => i = rxIdx + 1 /\ rxIdx' = i]_vars
    /\ [](pc = "ret" => /\ txIdx = Len(call.Data)
                        /\ rxIdx = call.rxCount
                        /\ \A i \in (call.rxCount + 1)..BufLen : rxBuf[i] = EmptyBuf[i])

C15_Witness ==
    /\ Returned("readSequential")
    /\ call.rxCount = 1
    /\ Len(call.Data) = 2
    /\ txIdx = 2
    /\ rxBuf[1] = 187
    /\ \A i \in 2..BufLen : rxBuf[i] = 0

(***************************************************************************)
(* The address byte, for every value of the uint8_t parameter _address.    *)
(***************************************************************************)
\* i2c_writeAddress or i2c_readAdress, entered with any _address, has issued
\* its Start and the hardware has completed it
AddrInit ==
    /\ \E a \in 0..255 :
          \/ /\ call = [fn |-> "writeAddress", address |-> a, Data |-> << >>, rxCount |-> 0]
             /\ pc = "wa73"
          \/ /\ call = [fn |-> "readAdress", address |-> a, Data |-> << >>, rxCount |-> 0]
             /\ pc = "ra107"
    /\ retpc = "none"
    /\ arg = 0
    /\ retval = 0
    /\ txIdx = 0
    /\ txLen = 0
    /\ rxIdx = 0
    /\ rxLen = 0
    /\ rxBuf = EmptyBuf
    /\ TWCR = 2 ^ TWINT + 2 ^ TWEN + 2 ^ TWSTA
    /\ TWDR = 255
    /\ TWSR = TWS.START
    /\ TWBR = 72
    /\ hwOp = "none"
    /\ hwMode = "addr"
    /\ wedged = FALSE
    /\ trace = << StartOp >>
    /\ bus = "AddressPhase"
    /\ slaveSent = << >>
    /\ nackSeen = FALSE
    /\ twcrW = 2 ^ TWINT + 2 ^ TWEN + 2 ^ TWSTA
    /\ isrSaved = NoIsr

AddrNext == i2c_writeAddress_73 \/ i2c_readAdress_107 \/ i2c_Write_58

AddrSpec == AddrInit /\ [][AddrNext]_vars

\* C16: the address byte given to the hardware is ((a << 1) | direction) mod
\* 256.  For a in 0..127 its upper seven bits are a and its lowest bit is the
\* direction, so no other 7-bit address gives the same byte; for a in
\* 128..255 the top bit of a is lost and the byte is that of a - 128.
C16_AddressByte ==
    pc = "Write60" =>
        LET a == call.address
            dir == IF call.fn = "readAdress" THEN 1 ELSE 0
        IN  /\ TWDR = (2 * a + dir) % 256
            /\ trace = << StartOp, Op("WriteByte", TWDR) >>
            /\ TWDR % 2 = dir
            /\ a \in 0..127 => /\ TWDR \div 2 = a
                               /\ \A c \in 0..127 : c # a => AddrByte(c, dir) # TWDR
            /\ a \in 128..255 => /\ TWDR \div 2 = a - 128
                                 /\ TWDR = AddrByte(a - 128, dir)

C16_Witness ==
    /\ pc = "Write60"
    /\ call.fn = "readAdress"
    /\ call.address = 208
    /\ TWDR = 161
    /\ AddrByte(80, 1) = 161

(***************************************************************************)
(* The values stored in the control register.                              *)
(***************************************************************************)
\* the last operation issued by a primitive; twcrW is the value it stored
LastOp == trace[Len(trace)]

\* C17: every value stored in TWCR by Start, Stop, WriteByte and ReadByte has
\* TWINT and TWEN set; TWSTA is set exactly by Start, TWSTO exactly by Stop,
\* TWEA exactly by ReadByte with ACK; no store has TWSTA and TWSTO together,
\* and the WriteByte issued while the start request is still in the register
\* leaves the register without it.
C17_ControlValues ==
    /\ [](trace # << >> =>
            /\ Bit(twcrW, TWINT) = 1
            /\ Bit(twcrW, TWEN) = 1
            /\ Bit(twcrW, TWSTA) = 1 <=> LastOp.op = "Start"
            /\ Bit(twcrW, TWSTO) = 1 <=> LastOp.op = "Stop"
            /\ Bit(twcrW, TWEA) = 1 <=> LastOp = Op("ReadByte", __i2c_ackCmd)
            /\ ~(Bit(twcrW, TWSTA) = 1 /\ Bit(twcrW, TWSTO) = 1)
            /\ twcrW \in {2 ^ TWINT + 2 ^ TWEN + 2 ^ TWSTA,
                          2 ^ TWINT + 2 ^ TWEN + 2 ^ TWSTO,
                          2 ^ TWINT + 2 ^ TWEN,
                          2 ^ TWINT + 2 ^ TWEN + 2 ^ TWEA})
    /\ [][pc = "Write58" /\ pc' = "Write60" =>
            /\ Bit(TWCR', TWSTA) = 0
            /\ twcrW' = 2 ^ TWINT + 2 ^ TWEN]_vars

\* the address byte is being sent: the store before it was the Start, whose
\* request bit was still in the register, and the store of i2c_Write removed it
C17_Witness ==
    /\ pc = "Write60"
    /\ Len(trace) = 2
    /\ trace[1] = StartOp
    /\ LastOp.op = "WriteByte"
    /\ twcrW = 132
    /\ Bit(TWCR, TWSTA) = 0

=============================================================================
